---- MODULE Spec2Model ----
(***************************************************************************)
(* Recording Session Engine: the session lifecycle, the action ledger and   *)
(* the persistence of SessionTreeProvider, and the terminal command        *)
(* correlation of TerminalMonitor.                                         *)
(*                                                                         *)
(* Every JavaScript handler is modelled by one action per synchronous      *)
(* segment: a handler without an await after its first state access is one *)
(* action; the command-end listener, which awaits the output capture       *)
(* between its look-up and its append, is two (the listener up to the      *)
(* await, and its continuation).                                           *)
(***************************************************************************)
EXTENDS Integers, Sequences, FiniteSets, Bags, TLC

\* ------------------------------------------------------------------ bounds
\* Actions recorded over all ledgers, in-flight end listeners included.
MaxActions == 2
\* Actions over all ledgers where the ledger operations are explored.
MaxLedger == 3
\* The last value of the host clock where the clock advances.
MaxClock == 2
\* Confirmation dialogs of deleteAction open at a time.
MaxPrompts == 2
\* Code changes the file watcher hands to the action manager.
MaxChanges == 2
\* Actions recorded where commands are recorded by hand, those still to come
\* from a suspended handler included.
MaxManual == 3

\* ------------------------------------------------------------ input values
Terminals == {"t1", "t2"}
\* vscode.Terminal.processId as the listener reads it; 0 stands for a
\* missing (falsy) process id.
processId == [t \in Terminals |-> IF t = "t1" THEN 101 ELSE 0]
\* Math.random().toString(36).substring(2, 15)
RandomStrings == {"k3x", "q9z"}
CommandLines == {"ls", "npm test"}
ExitCodes == {0, 1}
\* what captureTerminalOutput resolves to; "" also stands for a failed capture
Outputs == {"", "a b"}
Descriptions == {"Fix auth bug"}
\* what generateNameFromDescription (a hosted model) may answer
Names == {"Fix auth"}
\* what the note prompt may return; "" is a dismissed prompt
NoteTexts == {"", "Found a bug", "Fixed it"}
\* the answers of a confirmation dialog; "" is a dismissed dialog
Confirmations == {"Delete", "Cancel", ""}

null == "null"

VARIABLES
    now,                   \* the host clock (Date.now(), new Date())
    sessions,              \* SessionTreeProvider.sessions: id -> SessionData
    currentSession,        \* SessionTreeProvider.currentSession
    isSessionActive,       \* SessionTreeProvider.isSessionActive
    files,                 \* the sessions directory: id -> the record in `${id}.json`
    viewFiles,             \* the ids whose `${id}-view.json` is in the sessions directory
    fileIsTracking,        \* FileWatcherService.isTracking
    isTracking,            \* TerminalMonitor.isTracking
    terminalStartListener, \* TRUE iff the field terminalStartListener holds a listener
    terminalEndListener,   \* TRUE iff the field terminalEndListener holds a listener
    registered,            \* the listeners live at the host: how many for each event
    pendingCommands,       \* TerminalMonitor.pendingCommands: id -> {command, timestamp}
    endHandlers,           \* end listeners suspended in `await captureTerminalOutput` (a bag)
    stale,                 \* history: the ids whose entry was pending when stopTracking() ran
    credit,                \* history: start events stored minus command actions recorded
    audit,                 \* which history is kept ("off", "stale", "credit", "origin") or which
                           \* part of the program runs on its own ("lifecycle", "ledger",
                           \* "persist", "files")
    lastEvent,             \* history: the early return the last handler took, if any
    deletePrompts,         \* deleteAction calls suspended in their confirmation dialog (a bag)
    writable,              \* TRUE iff the storage accepts writeFileSync and unlinkSync
    fileContents,          \* FileWatcherService.fileContents: path -> cached content
    diffPrompts,           \* showDiffDialog messages waiting for the user's choice (a bag)
    actionsFile,           \* ActionManager.actions as saved in .caveatbot/actions.json
    manualCaptures,        \* manualRecordCommand calls waiting for their output capture
    sessionPrompts,        \* deleteSession calls suspended in their confirmation dialog (a bag)
    shown                  \* history: what the last handler showed or fired

vars == <<now, sessions, currentSession, isSessionActive, files, viewFiles,
          fileIsTracking, isTracking,
          terminalStartListener, terminalEndListener, registered, pendingCommands,
          endHandlers, stale, credit, audit, lastEvent,
          deletePrompts, writable, fileContents, diffPrompts, actionsFile,
          manualCaptures, sessionPrompts, shown>>

\* ----------------------------------------------------------------- helpers
\* Map.delete(k)
MapDelete(m, k) == [x \in DOMAIN m \ {k} |-> m[x]]
Range(f) == {f[x] : x \in DOMAIN f}
\* Map.set(k, v)
MapSet(m, k, v) == [x \in DOMAIN m \cup {k} |-> IF x = k THEN v ELSE m[x]]

RECURSIVE SumLen(_, _)
SumLen(m, ks) ==
    IF ks = {} THEN 0
    ELSE LET k == CHOOSE x \in ks : TRUE
         IN Len(m[k].actions) + SumLen(m, ks \ {k})
TotalActions == SumLen(sessions, DOMAIN sessions)
\* room for one more recorded action, every suspended end listener counted
HasRoom == TotalActions + BagCardinality(endHandlers) < MaxActions

\* new Date().toISOString()
toISOString(n) == "iso-" \o ToString(n)
\* `session-${Date.now()}`
NewSessionId(n) == "session-" \o ToString(n)
\* what the sessions directory may hold when the extension is activated
\* (loadSessions in the constructor): nothing, or one earlier session with
\* one recorded note
LoadedStores ==
    { << >>,
      [k \in {NewSessionId(0)} |->
         [id |-> NewSessionId(0), name |-> "Fix auth", description |-> "Fix auth bug",
          startTime |-> toISOString(0),
          actions |-> << [type |-> "note", command |-> "todo", code_change |-> "",
                          output |-> "", success |-> TRUE, timestamp |-> toISOString(0)] >>,
          notes |-> "Fix auth bug"]] }

\* a sessions directory with three earlier sessions: one with one recorded
\* note and two with none
ThreeSessions ==
    [k \in {NewSessionId(0), "session-a", "session-b"} |->
       [id |-> k,
        name |-> "Fix auth",
        description |-> "Fix auth bug",
        startTime |-> toISOString(0),
        actions |-> IF k # NewSessionId(0) THEN << >>
                    ELSE << [type |-> "note", command |-> "todo", code_change |-> "",
                             output |-> "", success |-> TRUE,
                             timestamp |-> toISOString(0)] >>,
        notes |-> "Fix auth bug"]]

\* an id no session ever has
MissingSessionId == NewSessionId(MaxClock + 1)
\* the key `undefined` of a Map: what session.id is for a loaded record that
\* has no id
undefined == "undefined"
\* the session ids a tree item may carry: the sessions of the store that
\* have a session item (loadSessions makes none for the key undefined) and a
\* session that is not (or no longer) there
ShownSessionIds == (DOMAIN sessions \ {undefined}) \cup {MissingSessionId}
\* the (sessionId, actionIndex) pairs an action item id may carry, as matched
\* by getActionIndexFromItemId: every action of the store and, for an item
\* that has gone stale, the `beyond` indices behind the end of each ledger
ActionRefs(beyond) ==
    UNION {{[sessionId |-> s, actionIndex |-> i] :
               i \in 0..(Len(sessions[s].actions) + beyond - 1)} :
           s \in DOMAIN sessions \ {undefined}}
    \cup {[sessionId |-> MissingSessionId, actionIndex |-> 0]}

\* history: the listener that ran last and the early return it took; a
\* handler that ran past its guards, and every other handler, leaves Other
Event(op, outcome) == [op |-> op, outcome |-> outcome]
Other == Event("other", "")
\* history: what a command of the session provider did, kept for some
\* outcomes where the provider runs on its own
Mark(op, outcome) ==
    IF audit \in {"lifecycle", "ledger"} THEN Event(op, outcome) ELSE Other
\* history: the messages a handler showed and the "refresh" it fired, kept
\* where persistence or the file watcher is explored
Notice(messages) ==
    IF audit \in {"persist", "files"} THEN messages ELSE {}
\* what only the suspended dialogs, the storage and the file watcher touch
restUnchanged ==
    UNCHANGED <<deletePrompts, writable, fileContents, diffPrompts, actionsFile,
                manualCaptures, sessionPrompts>>

\* ---------------------------------------------------------- TerminalMonitor
getTerminalId(terminal, rnd) ==
    "terminal-" \o (IF processId[terminal] # 0 THEN ToString(processId[terminal]) ELSE rnd)
AllTerminalIds == {getTerminalId(t, r) : t \in Terminals, r \in RandomStrings}

\* the monitor as it stands
monitorUnchanged ==
    [isTracking |-> isTracking, terminalStartListener |-> terminalStartListener,
     terminalEndListener |-> terminalEndListener, registered |-> registered]
\* a clean-up that drops the fields and leaves the host's registrations
disposeListenersForgets(m) ==
    [m EXCEPT !.terminalStartListener = FALSE, !.terminalEndListener = FALSE]
\* disposeListeners(): a listener held in a field is disposed at the host
\* and the field set to undefined
disposeListeners(m) ==
    [m EXCEPT !.terminalStartListener = FALSE,
              !.terminalEndListener = FALSE,
              !.registered = [start |-> IF m.terminalStartListener THEN @.start - 1 ELSE @.start,
                              end |-> IF m.terminalEndListener THEN @.end - 1 ELSE @.end]]
\* setupShellIntegration(): clean up, then, if tracking, register both
\* listeners at the host and keep them in the fields (the host has both
\* shell-integration events)
setupShellIntegration(m) ==
    LET d == disposeListeners(m)
    IN IF ~d.isTracking THEN d
       ELSE [d EXCEPT !.terminalStartListener = TRUE,
                      !.terminalEndListener = TRUE,
                      !.registered = [start |-> @.start + 1, end |-> @.end + 1]]
\* the monitor's flag and listeners after startTracking():
\* isTracking = true, setupShellIntegration()
startTracking == setupShellIntegration([monitorUnchanged EXCEPT !.isTracking = TRUE])
\* after stopTracking(): isTracking = false, disposeListeners()
stopTracking == disposeListeners([monitorUnchanged EXCEPT !.isTracking = FALSE])
updateTrackingState(hasActiveSession) ==
    IF hasActiveSession /\ ~isTracking THEN startTracking
    ELSE IF ~hasActiveSession /\ isTracking THEN stopTracking
    ELSE monitorUnchanged

\* history: a stopTracking() marks every entry that is pending at that moment
MarkStale(m) ==
    IF m.isTracking \/ audit # "stale" THEN stale
    ELSE DOMAIN pendingCommands

SetMonitor(m, stopped) ==
    /\ isTracking' = m.isTracking
    /\ terminalStartListener' = m.terminalStartListener
    /\ terminalEndListener' = m.terminalEndListener
    /\ registered' = m.registered
    /\ stale' = IF stopped THEN MarkStale(m) ELSE stale

\* a guard that forgets the session
CaptureEnabledTrackingOnly == isTracking
\* the guard of both listeners:
\* this.isTracking && this.sessionProvider.getCurrentSession()
CaptureEnabled == isTracking /\ currentSession # null

\* a look-up that answers an empty entry for a missing key
pendingCommandsGetOrEmpty(terminalId) ==
    IF terminalId \in DOMAIN pendingCommands
    THEN <<pendingCommands[terminalId]>>
    ELSE <<[command |-> "", timestamp |-> ""]>>
\* this.pendingCommands.get(terminalId): <<>> stands for undefined
pendingCommandsGet(terminalId) ==
    IF terminalId \in DOMAIN pendingCommands THEN <<pendingCommands[terminalId]>> ELSE <<>>

\* -------------------------------------------------- SessionTreeProvider
\* JSON.stringify(object) for an object whose members are all defined: the
\* text, given as its syntax and the members (key, value) it spells out
JSONstringify(object) ==
    [syntax |-> "json", members |-> {<<k, object[k]>> : k \in DOMAIN object}]
\* a parse that loses the actions
JSONparseWithoutActions(text) ==
    [k \in {m[1] : m \in text.members} |->
       IF k = "actions" THEN << >> ELSE (CHOOSE m \in text.members : m[1] = k)[2]]
\* JSON.parse(text) of a text that is JSON: the object with the members of
\* the text
JSONparse(text) ==
    [k \in {m[1] : m \in text.members} |-> (CHOOSE m \in text.members : m[1] = k)[2]]
\* saveSession(sessionId): the sessions directory after the call, `store`
\* being this.sessions at that moment; a failing writeFileSync is caught and
\* leaves the file as it was
saveSession(store, sessionId, disk) ==
    IF sessionId \in DOMAIN store /\ writable
    THEN MapSet(disk, sessionId, JSONstringify(store[sessionId]))
    ELSE disk
\* a failing write that nobody hears of
SaveFailedSilently == {}
\* the message saveSession shows when writeFileSync throws
SaveFailed == IF writable THEN {} ELSE {"Failed to save session"}

\* SessionTreeProvider.fileWatcherService after activate(): the field starts
\* as null and only initializeFileWatcherService(), which nothing calls,
\* assigns it. Where the file watcher is explored the provider has been given
\* its watcher by that method: `new FileWatcherService(actionManager, this)`
\* and start().
fileWatcherService == IF audit = "files" THEN "fileWatcherService" ELSE null
\* FileWatcherService.isTracking after
\* `if (this.fileWatcherService) this.fileWatcherService.startTracking()`
fileStartTracking == IF fileWatcherService # null THEN TRUE ELSE fileIsTracking
\* ... after `if (this.fileWatcherService) this.fileWatcherService.updateTrackingState(b)`
fileUpdateTrackingState(hasActiveSession) ==
    IF fileWatcherService = null THEN fileIsTracking
    ELSE IF hasActiveSession /\ ~fileIsTracking THEN TRUE
    ELSE IF ~hasActiveSession /\ fileIsTracking THEN FALSE
    ELSE fileIsTracking

\* an append that reaches the ledger of every session
addActionEverywhere(type, content, success, codeChange, output) ==
    IF currentSession = null THEN sessions
    ELSE IF currentSession \notin DOMAIN sessions THEN sessions
    ELSE LET action == [type |-> type,
                        command |-> IF type = "codeChange" THEN "" ELSE content,
                        code_change |-> codeChange,
                        output |-> output,
                        success |-> IF success # <<>> THEN success[1] ELSE TRUE,
                        timestamp |-> toISOString(now)]
         IN [s \in DOMAIN sessions |->
               [sessions[s] EXCEPT !.actions = Append(@, action)]]
\* an append that puts the new action first
addActionUnshift(type, content, success, codeChange, output) ==
    IF currentSession = null THEN sessions
    ELSE IF currentSession \notin DOMAIN sessions THEN sessions
    ELSE LET action == [type |-> type,
                        command |-> IF type = "codeChange" THEN "" ELSE content,
                        code_change |-> codeChange,
                        output |-> output,
                        success |-> IF success # <<>> THEN success[1] ELSE TRUE,
                        timestamp |-> toISOString(now)]
         IN [sessions EXCEPT ![currentSession].actions = <<action>> \o @]
\* addAction(type, content, success, codeChange, output): the value of
\* this.sessions after the call; success is <<>> for undefined, <<b>> for b
addAction(type, content, success, codeChange, output) ==
    IF currentSession = null THEN sessions
    ELSE IF currentSession \notin DOMAIN sessions THEN sessions
    ELSE LET action == [type |-> type,
                        command |-> IF type = "codeChange" THEN "" ELSE content,
                        code_change |-> codeChange,
                        output |-> output,
                        success |-> IF success # <<>> THEN success[1] ELSE TRUE,
                        timestamp |-> toISOString(now)]
         IN [sessions EXCEPT ![currentSession].actions = Append(@, action)]
\* an append that leaves the file as it was
addActionNotSaved(store) == files
\* the sessions directory after addAction has made `store` of this.sessions:
\* it saves the current session if it found one
addActionSaved(store) ==
    IF currentSession = null THEN files ELSE saveSession(store, currentSession, files)

\* the state after activate(): the sessions directory loaded, no session
\* active, tracking off, nothing pending
InitLoaded(history, storage, stores) ==
    /\ now = 1
    /\ sessions \in stores
    /\ files = [id \in DOMAIN sessions |-> JSONstringify(sessions[id])]
    /\ viewFiles = {}
    /\ currentSession = null
    /\ isSessionActive = FALSE
    /\ fileIsTracking = FALSE
    /\ isTracking = FALSE
    /\ terminalStartListener = FALSE
    /\ terminalEndListener = FALSE
    /\ registered = [start |-> 0, end |-> 0]
    /\ pendingCommands = << >>
    /\ endHandlers = EmptyBag
    /\ stale = {}
    /\ credit = 0
    /\ audit = history
    /\ lastEvent = Other
    /\ deletePrompts = EmptyBag
    /\ writable \in storage
    /\ fileContents = << >>
    /\ diffPrompts = EmptyBag
    /\ actionsFile = << >>
    /\ manualCaptures = 0
    /\ sessionPrompts = EmptyBag
    /\ shown = {}
\* ... with the sessions directory holding nothing or one earlier session
InitStore(history, storage) == InitLoaded(history, storage, LoadedStores)
\* the same on a storage that takes every write and removal
InitWith(history) == InitStore(history, {TRUE})

Init == InitWith("off")

\* what no handler of the session provider touches
terminalUnchanged == UNCHANGED <<pendingCommands, endHandlers, credit, audit>>
lifecycleUnchanged ==
    UNCHANGED <<currentSession, isSessionActive, fileIsTracking, isTracking,
                terminalStartListener, terminalEndListener, registered, stale>>

\* startSession(): the segment after the description prompt and the naming
\* call; an empty description is a dismissed prompt
startSession(sessionDescription, sessionName) ==
    IF sessionDescription = ""
    THEN /\ lastEvent' = Other
         /\ lifecycleUnchanged
         /\ UNCHANGED <<sessions, files>>
    ELSE LET sessionId == NewSessionId(now)
             newSession == [id |-> sessionId,
                            name |-> sessionName,
                            description |-> sessionDescription,
                            startTime |-> toISOString(now),
                            actions |-> << >>,
                            notes |-> sessionDescription]
         IN /\ sessions' = MapSet(sessions, sessionId, newSession)
            /\ currentSession' = sessionId
            /\ isSessionActive' = TRUE
            /\ files' = saveSession(sessions', sessionId, files)
            /\ SetMonitor(updateTrackingState(TRUE), FALSE)
            /\ fileIsTracking' = fileStartTracking
            /\ lastEvent' = Other

StartSession(sessionDescription, sessionName) ==
    /\ startSession(sessionDescription, sessionName)
    /\ terminalUnchanged
    /\ UNCHANGED <<now, viewFiles>>
    /\ restUnchanged
    /\ shown' = Notice(IF sessionDescription = "" THEN {} ELSE {"refresh"} \cup SaveFailed)

\* a test that finds every id
sessionsHasAny(sessionId) == TRUE
\* this.sessions.has(sessionId)
sessionsHas(sessionId) == sessionId \in DOMAIN sessions

\* setActiveSession(sessionId)
SetActiveSession(sessionId) ==
    /\ IF sessionsHas(sessionId)
       THEN /\ currentSession' = sessionId
            /\ isSessionActive' = TRUE
            /\ SetMonitor(updateTrackingState(TRUE), FALSE)
            /\ fileIsTracking' = fileStartTracking
            /\ lastEvent' = Other
       ELSE /\ lastEvent' = Mark("setActiveSession", "ignored")
            /\ lifecycleUnchanged
    /\ terminalUnchanged
    /\ UNCHANGED <<now, sessions, files, viewFiles>>
    /\ restUnchanged
    /\ shown' = Notice({})

\* a close that leaves the lifecycle as it is
closeCurrentSessionSkipped == lifecycleUnchanged
\* a close that clears the current session and forgets the active flag
closeCurrentSessionKeepsFlag ==
    IF currentSession # null
    THEN /\ currentSession' = null
         /\ UNCHANGED isSessionActive
         /\ SetMonitor(updateTrackingState(FALSE), isTracking)
         /\ fileIsTracking' = fileUpdateTrackingState(FALSE)
    ELSE lifecycleUnchanged
\* closeCurrentSession(): what it does to the lifecycle and both trackers
closeCurrentSession ==
    IF currentSession # null
    THEN /\ currentSession' = null
         /\ isSessionActive' = FALSE
         /\ SetMonitor(updateTrackingState(FALSE), isTracking)
         /\ fileIsTracking' = fileUpdateTrackingState(FALSE)
    ELSE lifecycleUnchanged

CloseCurrentSession ==
    /\ closeCurrentSession
    /\ lastEvent' = Other
    /\ terminalUnchanged
    /\ UNCHANGED <<now, sessions, files, viewFiles>>
    /\ restUnchanged
    /\ shown' = Notice(IF currentSession # null THEN {"refresh"} ELSE {})

\* deleteSession(sessionId) with the answer to its confirmation dialog; the
\* segment after the dialog reads no value taken before it except the id.
\* unlinkSync removes `${id}.json` and `${id}-view.json` if they exist; a
\* failing unlinkSync is caught and reported, with the entry already deleted.
DeleteSession(sessionId, confirmation) ==
    /\ IF sessionId \notin DOMAIN sessions
       THEN /\ lastEvent' = Other
            /\ lifecycleUnchanged
            /\ UNCHANGED <<sessions, files, viewFiles>>
       ELSE IF confirmation # "Delete"
       THEN /\ lastEvent' = Other
            /\ lifecycleUnchanged
            /\ UNCHANGED <<sessions, files, viewFiles>>
       ELSE /\ IF currentSession = sessionId
               THEN closeCurrentSession
               ELSE lifecycleUnchanged
            /\ sessions' = MapDelete(sessions, sessionId)
            /\ files' = IF writable THEN MapDelete(files, sessionId) ELSE files
            /\ viewFiles' = IF writable THEN viewFiles \ {sessionId} ELSE viewFiles
            /\ lastEvent' = IF currentSession = sessionId
                            THEN Mark("deleteSession", "deleted the active session")
                            ELSE Other
    /\ terminalUnchanged
    /\ UNCHANGED now
    /\ restUnchanged
    /\ shown' = Notice(IF sessionId \notin DOMAIN sessions THEN {"Session not found"}
                        ELSE IF confirmation # "Delete" THEN {}
                        ELSE {"refresh"}
                             \cup (IF ~writable /\ (sessionId \in DOMAIN files
                                                     \/ sessionId \in viewFiles)
                                   THEN {"Failed to delete session file"} ELSE {}))

\* a deletion that never takes its session for the current one
deletesCurrentNever(sessionId) == FALSE
\* this.currentSession === sessionId, read after the confirmation
deletesCurrent(sessionId) == currentSession = sessionId

\* deleteSession(sessionId) up to its confirmation dialog
DeleteSessionPrompt(sessionId) ==
    /\ BagCardinality(sessionPrompts) < MaxPrompts
    /\ IF sessionsHas(sessionId)
       THEN /\ sessionPrompts' = sessionPrompts (+) SetToBag({sessionId})
            /\ shown' = Notice({})
       ELSE /\ UNCHANGED sessionPrompts
            /\ shown' = Notice({"Session not found"})
    /\ lastEvent' = Other
    /\ lifecycleUnchanged
    /\ terminalUnchanged
    /\ UNCHANGED <<now, sessions, files, viewFiles, deletePrompts, writable, fileContents,
                   diffPrompts, actionsFile, manualCaptures>>

\* deleteSession(sessionId) from the answer of its dialog on: it looks at
\* this.currentSession anew and deletes the id from the maps, be it there or
\* not
DeleteSessionResume(sessionId, confirmation) ==
    /\ BagIn(sessionId, sessionPrompts)
    /\ sessionPrompts' = sessionPrompts (-) SetToBag({sessionId})
    /\ IF confirmation # "Delete"
       THEN /\ lifecycleUnchanged
            /\ UNCHANGED <<sessions, files, viewFiles>>
            /\ shown' = Notice({})
       ELSE /\ IF deletesCurrent(sessionId)
               THEN closeCurrentSession
               ELSE lifecycleUnchanged
            /\ sessions' = MapDelete(sessions, sessionId)
            /\ files' = IF writable THEN MapDelete(files, sessionId) ELSE files
            /\ viewFiles' = IF writable THEN viewFiles \ {sessionId} ELSE viewFiles
            /\ shown' = Notice({"refresh"}
                               \cup (IF ~writable /\ (sessionId \in DOMAIN files
                                                       \/ sessionId \in viewFiles)
                                     THEN {"Failed to delete session file"} ELSE {}))
    /\ lastEvent' = Other
    /\ terminalUnchanged
    /\ UNCHANGED <<now, deletePrompts, writable, fileContents, diffPrompts, actionsFile,
                   manualCaptures>>

\* command caveatbot.toggleTerminalTracking
ToggleTerminalTracking ==
    /\ IF isTracking THEN SetMonitor(stopTracking, TRUE) ELSE SetMonitor(startTracking, FALSE)
    /\ lastEvent' = Other
    /\ terminalUnchanged
    /\ UNCHANGED <<now, sessions, files, viewFiles, currentSession, isSessionActive,
                   fileIsTracking>>
    /\ restUnchanged
    /\ shown' = Notice({})

\* command caveatbot.startCapture: startSession() if no session is active
\* (its prompt may be dismissed), then startTracking()
StartCapture(sessionDescription, sessionName) ==
    /\ IF currentSession = null /\ sessionDescription # ""
       THEN LET sessionId == NewSessionId(now)
            IN /\ sessions' = MapSet(sessions, sessionId,
                                     [id |-> sessionId,
                                      name |-> sessionName,
                                      description |-> sessionDescription,
                                      startTime |-> toISOString(now),
                                      actions |-> << >>,
                                      notes |-> sessionDescription])
               /\ currentSession' = sessionId
               /\ isSessionActive' = TRUE
               /\ files' = saveSession(sessions', sessionId, files)
               /\ fileIsTracking' = fileStartTracking
       ELSE UNCHANGED <<sessions, currentSession, isSessionActive, files, fileIsTracking>>
    /\ SetMonitor(IF currentSession = null /\ sessionDescription # ""
                  THEN setupShellIntegration([updateTrackingState(TRUE)
                                                EXCEPT !.isTracking = TRUE])
                  ELSE startTracking,
                  FALSE)
    /\ lastEvent' = Other
    /\ terminalUnchanged
    /\ UNCHANGED <<now, viewFiles>>
    /\ restUnchanged
    /\ shown' = Notice(IF currentSession = null /\ sessionDescription # ""
                        THEN {"refresh"} \cup SaveFailed ELSE {})

\* command caveatbot.stopCapture
StopCapture ==
    /\ SetMonitor(stopTracking, TRUE)
    /\ lastEvent' = Other
    /\ terminalUnchanged
    /\ UNCHANGED <<now, sessions, files, viewFiles, currentSession, isSessionActive,
                   fileIsTracking>>
    /\ restUnchanged
    /\ shown' = Notice({})

\* the host clock advances
Tick ==
    /\ now < MaxClock
    /\ now' = now + 1
    /\ lastEvent' = Other
    /\ lifecycleUnchanged
    /\ terminalUnchanged
    /\ UNCHANGED <<sessions, files, viewFiles>>
    /\ restUnchanged
    /\ shown' = Notice({})

\* addNoteAction(): the segment after its prompts, noteText being the note
\* as given or as entered; it calls addAction('note', noteText)
AddNoteAction(noteText) ==
    /\ TotalActions < (IF audit = "ledger" THEN MaxLedger ELSE MaxActions)
    /\ IF noteText # ""
       THEN /\ sessions' = addAction("note", noteText, <<>>, "", "")
            /\ files' = addActionSaved(sessions')
       ELSE UNCHANGED <<sessions, files>>
    /\ lastEvent' = Other
    /\ lifecycleUnchanged
    /\ terminalUnchanged
    /\ UNCHANGED <<now, viewFiles>>
    /\ restUnchanged
    /\ shown' = Notice(IF noteText # "" /\ currentSession \in DOMAIN sessions
                        THEN {"refresh"} \cup SaveFailed ELSE {})

\* viewSessionJson(sessionId): writes `${sessionId}-view.json`
ViewSessionJson(sessionId) ==
    /\ IF sessionId \in DOMAIN sessions
       THEN /\ viewFiles' = IF writable THEN viewFiles \cup {sessionId} ELSE viewFiles
            /\ lastEvent' = Other
       ELSE /\ lastEvent' = Other
            /\ UNCHANGED viewFiles
    /\ lifecycleUnchanged
    /\ terminalUnchanged
    /\ UNCHANGED <<now, sessions, files>>
    /\ restUnchanged
    /\ shown' = Notice(IF sessionId \notin DOMAIN sessions THEN {"Session not found"}
                        ELSE IF ~writable THEN {"Failed to show JSON view"} ELSE {})

\* a removal that always takes the last element
spliceRemoveLast(a, start) ==
    IF start >= Len(a) THEN a ELSE SubSeq(a, 1, Len(a) - 1)
\* Array.prototype.splice(start, 1) on a, start >= 0 counted from 0: the
\* array afterwards (nothing is removed at or beyond the length)
spliceRemove(a, start) ==
    IF start >= Len(a) THEN a
    ELSE SubSeq(a, 1, start) \o SubSeq(a, start + 2, Len(a))
\* an insertion that always appends
spliceInsertLast(a, start, item) == Append(a, item)
\* Array.prototype.splice(start, 0, item) on a: a start beyond the length
\* is taken as the length
spliceInsert(a, start, item) ==
    LET k == IF start > Len(a) THEN Len(a) ELSE start
    IN SubSeq(a, 1, k) \o <<item>> \o SubSeq(a, k + 1, Len(a))

\* a validation that looks at the session only
deleteActionReportSessionOnly(sessionId, actionIndex) ==
    IF sessionId \notin DOMAIN sessions THEN "Session not found" ELSE ""
\* the error deleteAction(sessionId, actionIndex) shows and returns on
\* ("" for none)
deleteActionReport(sessionId, actionIndex) ==
    IF sessionId \notin DOMAIN sessions THEN "Session not found"
    ELSE IF actionIndex < 0 \/ actionIndex >= Len(sessions[sessionId].actions)
    THEN "Action not found"
    ELSE ""

\* deleteAction(sessionId, actionIndex) with the answer to its modal
\* confirmation dialog
DeleteAction(sessionId, actionIndex, confirmation) ==
    /\ IF deleteActionReport(sessionId, actionIndex) # ""
       THEN /\ lastEvent' = Mark("deleteAction", deleteActionReport(sessionId, actionIndex))
            /\ UNCHANGED <<sessions, files>>
       ELSE IF confirmation # "Delete"
       THEN /\ lastEvent' = Other
            /\ UNCHANGED <<sessions, files>>
       ELSE /\ sessions' = [sessions EXCEPT ![sessionId].actions = spliceRemove(@, actionIndex)]
            /\ files' = saveSession(sessions', sessionId, files)
            /\ lastEvent' = Mark("deleteAction", "deleted")
    /\ lifecycleUnchanged
    /\ terminalUnchanged
    /\ UNCHANGED <<now, viewFiles>>
    /\ restUnchanged
    /\ shown' = Notice(IF deleteActionReport(sessionId, actionIndex) # ""
                        THEN {deleteActionReport(sessionId, actionIndex)}
                        ELSE IF confirmation # "Delete" THEN {}
                        ELSE {"refresh"} \cup SaveFailed)

\* deleteAction(sessionId, actionIndex) up to
\* `await vscode.window.showWarningMessage(...)`: the call keeps the session
\* object, the index and the action its message names
DeleteActionPrompt(sessionId, actionIndex) ==
    /\ IF deleteActionReport(sessionId, actionIndex) # ""
       THEN /\ lastEvent' = Mark("deleteAction", deleteActionReport(sessionId, actionIndex))
            /\ shown' = Notice({deleteActionReport(sessionId, actionIndex)})
            /\ UNCHANGED deletePrompts
       ELSE /\ BagCardinality(deletePrompts) < MaxPrompts
            /\ deletePrompts' = deletePrompts (+) SetToBag({
                   [sessionId |-> sessionId,
                    actionIndex |-> actionIndex,
                    action |-> sessions[sessionId].actions[actionIndex + 1]]})
            /\ lastEvent' = Other
            /\ shown' = Notice({})
    /\ lifecycleUnchanged
    /\ terminalUnchanged
    /\ UNCHANGED <<now, sessions, files, viewFiles, writable, fileContents, diffPrompts,
                   actionsFile, manualCaptures, sessionPrompts>>

\* the continuation of a suspended deleteAction p once its dialog is
\* answered: `session.actions.splice(actionIndex, 1)` on the session object
\* and with the index taken before the dialog. Where this runs no session is
\* replaced or deleted, so that object is the one in the store.
DeleteActionResume(p, confirmation) ==
    /\ BagIn(p, deletePrompts)
    /\ deletePrompts' = deletePrompts (-) SetToBag({p})
    /\ IF confirmation # "Delete" \/ p.sessionId \notin DOMAIN sessions
       THEN /\ lastEvent' = Other
            /\ shown' = Notice({})
            /\ UNCHANGED <<sessions, files>>
       ELSE /\ sessions' = [sessions EXCEPT ![p.sessionId].actions =
                               spliceRemove(@, p.actionIndex)]
            /\ files' = saveSession(sessions', p.sessionId, files)
            /\ lastEvent' = Mark("deleteAction", "deleted")
            /\ shown' = Notice({"refresh"} \cup SaveFailed)
    /\ lifecycleUnchanged
    /\ terminalUnchanged
    /\ UNCHANGED <<now, viewFiles, writable, fileContents, diffPrompts, actionsFile,
                   manualCaptures, sessionPrompts>>

\* moveAction(sourceSessionId, sourceActionIndex, targetSessionId,
\* targetActionIndex) applied to `store` and `disk`: the store and the
\* directory afterwards and the error it reported ("" for none)
moveAction(store, disk, sourceSessionId, sourceActionIndex, targetSessionId, targetActionIndex) ==
    IF sourceSessionId \notin DOMAIN store \/ targetSessionId \notin DOMAIN store
    THEN [sessions |-> store, files |-> disk, report |-> "Session not found"]
    ELSE IF sourceActionIndex < 0 \/ sourceActionIndex >= Len(store[sourceSessionId].actions)
    THEN [sessions |-> store, files |-> disk, report |-> "Source action not found"]
    ELSE IF targetActionIndex < 0 \/ targetActionIndex > Len(store[targetSessionId].actions)
    THEN [sessions |-> store, files |-> disk, report |-> "Invalid target position"]
    ELSE LET action == store[sourceSessionId].actions[sourceActionIndex + 1]
             removed == [store EXCEPT ![sourceSessionId].actions =
                            spliceRemove(@, sourceActionIndex)]
             inserted == [removed EXCEPT ![targetSessionId].actions =
                            spliceInsert(@, targetActionIndex, action)]
             saved == saveSession(inserted, sourceSessionId, disk)
         IN [sessions |-> inserted,
             files |-> IF sourceSessionId # targetSessionId
                       THEN saveSession(inserted, targetSessionId, saved) ELSE saved,
             report |-> ""]

\* the loop of handleDrop over the dragged action ids, from targetIndex on
RECURSIVE dropEach(_, _, _, _, _, _)
dropEach(store, disk, report, draggedActionIds, targetSessionId, targetIndex) ==
    IF draggedActionIds = << >>
    THEN [sessions |-> store, files |-> disk, report |-> report]
    ELSE LET actionInfo == Head(draggedActionIds)
             moved == moveAction(store, disk, actionInfo.sessionId, actionInfo.actionIndex,
                                 targetSessionId, targetIndex)
             decremented == IF actionInfo.sessionId = targetSessionId
                               /\ targetIndex > actionInfo.actionIndex
                            THEN targetIndex - 1 ELSE targetIndex
         IN dropEach(moved.sessions, moved.files,
                     IF report = "" THEN moved.report ELSE report,
                     Tail(draggedActionIds), targetSessionId, decremented + 1)

\* what the screenshot watcher may hand to addScreenshotAction
ScreenshotPaths == {"/shots/a.png"}
\* path.basename(path.normalize(screenshotPath))
basename == [q \in ScreenshotPaths |-> "a.png"]
\* the answers to the message of addScreenshotAction; "" is a dismissed one
ScreenshotChoices == {"Add to Session", "Ignore", ""}

\* addScreenshotAction(screenshotPath) with the answer to its message; the
\* segment after the message reads the current session anew
AddScreenshotAction(screenshotPath, result) ==
    /\ TotalActions < MaxActions
    /\ IF ~isSessionActive
       THEN /\ shown' = Notice({"No active session to add screenshot to"})
            /\ UNCHANGED <<sessions, files>>
       ELSE IF result # "Add to Session"
       THEN /\ shown' = Notice({})
            /\ UNCHANGED <<sessions, files>>
       ELSE IF currentSession \notin DOMAIN sessions
       THEN /\ shown' = Notice({"Session not found"})
            /\ UNCHANGED <<sessions, files>>
       ELSE LET screenshotAction ==
                   [type |-> "screenshot",
                    timestamp |-> toISOString(now),
                    path |-> screenshotPath,
                    filename |-> basename[screenshotPath],
                    description |-> "Screenshot captured: " \o basename[screenshotPath],
                    command |-> "",
                    code_change |-> "",
                    output |-> ""]
            IN /\ sessions' = [sessions EXCEPT ![currentSession].actions =
                                  Append(@, screenshotAction)]
               /\ files' = saveSession(sessions', currentSession, files)
               /\ shown' = Notice({"refresh"} \cup SaveFailed)
    /\ lastEvent' = Other
    /\ lifecycleUnchanged
    /\ terminalUnchanged
    /\ restUnchanged
    /\ UNCHANGED <<now, viewFiles>>

\* what a file of the sessions directory may hold that is not a session
\* record: text that is not JSON, and JSON of an object without an id
MalformedTexts ==
    {[syntax |-> "bad", members |-> {}],
     [syntax |-> "json", members |-> {<<"actions", << >>>>}]}
\* something else than the extension overwrites `${sessionId}.json`
Corrupt(sessionId, text) ==
    /\ sessionId \in DOMAIN files
    /\ files' = [files EXCEPT ![sessionId] = text]
    /\ lastEvent' = Other
    /\ shown' = Notice({})
    /\ lifecycleUnchanged
    /\ terminalUnchanged
    /\ restUnchanged
    /\ UNCHANGED <<now, sessions, viewFiles>>


\* what loadSessions reads from a view artifact. The text of the artifact
\* ({sessionName, sessionDescription, startTime, actions}) is not kept: it
\* has no id, and nothing looks at the members it has.
viewRecord == [actions |-> << >>]
\* this.sessions after loadSessions() on an empty map: every file of the
\* directory that ends in .json and parses is put under its session.id,
\* before `new SessionItem(session.id, ...)` throws for an id that is
\* undefined (this.id.includes); text that is not JSON makes JSON.parse throw
\* before that
loadSessions(dir, views) ==
    LET records == {JSONparse(dir[n]) : n \in {x \in DOMAIN dir : dir[x].syntax = "json"}}
                   \cup {viewRecord : v \in views}
        key(r) == IF "id" \in DOMAIN r THEN r.id ELSE undefined
    IN [k \in {key(r) : r \in records} |-> CHOOSE r \in records : key(r) = k]

\* the extension is deactivated and activated again: a new provider loads
\* the sessions directory, a new monitor and a new watcher start idle
Restart ==
    /\ sessions' = loadSessions(files, viewFiles)
    /\ currentSession' = null
    /\ isSessionActive' = FALSE
    /\ fileIsTracking' = FALSE
    /\ SetMonitor(stopTracking, FALSE)
    /\ pendingCommands' = << >>
    /\ endHandlers' = EmptyBag
    /\ deletePrompts' = EmptyBag
    /\ diffPrompts' = EmptyBag
    /\ fileContents' = << >>
    /\ lastEvent' = Event("loadSessions", "loaded")
    /\ shown' = Notice({})
    /\ manualCaptures' = 0
    /\ sessionPrompts' = EmptyBag
    /\ UNCHANGED <<now, files, viewFiles, writable, actionsFile, credit, audit>>

\* ------------------------------------------------------ FileWatcherService
\* the documents of the workspace: document.uri.fsPath
Paths == {"/w/a.ts"}
\* filePath.split(/[\\/]/).pop() || filePath
fileNameOf == [q \in Paths |-> "a.ts"]
\* document.getText(): the lines of the document, each ending in a newline
Texts == {<<"a">>, <<"a", "b">>, <<"b">>}
\* the answers to the message of showDiffDialog; "" is a dismissed one
DiffChoices == {"Save to Session", ""}

Min(a, b) == IF a < b THEN a ELSE b
\* the lines two texts share at their start, and at their end behind those
commonPrefix(old, new) ==
    CHOOSE k \in 0..Min(Len(old), Len(new)) :
       /\ \A i \in 1..k : old[i] = new[i]
       /\ k < Min(Len(old), Len(new)) => old[k + 1] # new[k + 1]
commonSuffix(old, new) ==
    LET p == commonPrefix(old, new)
        m == Min(Len(old), Len(new)) - p
    IN CHOOSE k \in 0..m :
          /\ \A i \in 0..(k - 1) : old[Len(old) - i] = new[Len(new) - i]
          /\ k < m => old[Len(old) - k] # new[Len(new) - k]
\* a diff that reports the whole new text as added
diffLinesAll(oldContent, newContent) ==
    <<[value |-> newContent, added |-> TRUE, removed |-> FALSE]>>
\* diffLines(oldContent, newContent) for two texts that differ in one run of
\* lines: the common start, the removed lines, the added lines, the common
\* end, each part only if it has lines
diffLines(oldContent, newContent) ==
    LET p == commonPrefix(oldContent, newContent)
        e == commonSuffix(oldContent, newContent)
        part(v, a, r) == IF v = << >> THEN << >>
                         ELSE <<[value |-> v, added |-> a, removed |-> r]>>
    IN part(SubSeq(oldContent, 1, p), FALSE, FALSE)
       \o part(SubSeq(oldContent, p + 1, Len(oldContent) - e), FALSE, TRUE)
       \o part(SubSeq(newContent, p + 1, Len(newContent) - e), TRUE, FALSE)
       \o part(SubSeq(oldContent, Len(oldContent) - e + 1, Len(oldContent)), FALSE, FALSE)
\* differences.filter(part => part.added || part.removed).map(...)
changesOf(differences) ==
    LET changed == SelectSeq(differences, LAMBDA part : part.added \/ part.removed)
    IN [k \in 1..Len(changed) |->
          [type |-> IF changed[k].added THEN "addition" ELSE "removal",
           value |-> changed[k].value]]
\* `${fileName}: ${changeType} "${firstLine}"` of showDiffDialog
diffMessage(changes, filePath) ==
    fileNameOf[filePath] \o ": "
       \o (IF changes[1].type = "addition" THEN "Added" ELSE "Removed")
       \o " \"" \o changes[1].value[1] \o "\""

RECURSIVE joinLines(_)
\* the lines of a hunk as they stand in a JSON string
joinLines(lines) ==
    IF lines = << >> THEN "" ELSE lines[1] \o "\\n" \o joinLines(Tail(lines))
RECURSIVE stringifyChanges(_)
stringifyChanges(changes) ==
    IF changes = << >> THEN ""
    ELSE "{\"type\":\"" \o changes[1].type \o "\",\"content\":\""
            \o joinLines(changes[1].value) \o "\"}"
            \o (IF Len(changes) > 1 THEN "," ELSE "")
            \o stringifyChanges(Tail(changes))
\* JSON.stringify(codeChangeDetails) of showDiffDialog: filename, fullPath
\* and the changes as {type, content}
stringifyCodeChange(changes, filePath) ==
    "{\"filename\":\"" \o fileNameOf[filePath] \o "\",\"fullPath\":\"" \o filePath
       \o "\",\"changes\":[" \o stringifyChanges(changes) \o "]}"

\* this.fileContents.get(filePath): <<>> stands for undefined
fileContentsGet(filePath) ==
    IF filePath \in DOMAIN fileContents THEN <<fileContents[filePath]>> ELSE << >>

\* a cache that follows the saves only while the watcher is tracking
fileContentsSetIfTracking(filePath, newContent) ==
    IF fileIsTracking THEN MapSet(fileContents, filePath, newContent) ELSE fileContents
\* this.fileContents.set(filePath, newContent), on both paths of
\* FileWatcherService.handleFileSave
fileContentsSet(filePath, newContent) == MapSet(fileContents, filePath, newContent)

\* the listener of onDidOpenTextDocument in start()
OnDidOpenTextDocument(filePath, text) ==
    /\ fileContents' = MapSet(fileContents, filePath, text)
    /\ lastEvent' = Other
    /\ shown' = Notice({})
    /\ lifecycleUnchanged
    /\ terminalUnchanged
    /\ UNCHANGED <<now, sessions, files, viewFiles, deletePrompts, writable,
                   diffPrompts, actionsFile, manualCaptures, sessionPrompts>>

\* the listener of onDidSaveTextDocument: FileWatcherService.handleFileSave,
\* SessionTreeProvider.handleFileSave and showDiffDialog up to its message;
\* actionManager.addAction writes actions.json, whose entries actionsFile is
OnDidSaveTextDocument(filePath, newContent) ==
    LET oldContent == fileContentsGet(filePath)
        passed == /\ fileIsTracking
                  /\ fileWatcherService # null
                  /\ isSessionActive /\ isTracking
                  /\ oldContent # << >>
        changes == IF passed THEN changesOf(diffLines(oldContent[1], newContent)) ELSE << >>
        codeChangeAction == [type |-> "code-change", timestamp |-> toISOString(now),
                             file |-> filePath, changes |-> changes]
    IN /\ Len(actionsFile) < MaxChanges
       /\ fileContents' = fileContentsSet(filePath, newContent)
       /\ IF changes # << >>
          THEN /\ actionsFile' = IF writable THEN Append(actionsFile, codeChangeAction)
                                 ELSE actionsFile
               /\ diffPrompts' = diffPrompts (+) SetToBag({[changes |-> changes,
                                                           filePath |-> filePath]})
               /\ shown' = Notice({diffMessage(changes, filePath)})
          ELSE /\ UNCHANGED <<actionsFile, diffPrompts>>
               /\ shown' = Notice({})
       /\ lastEvent' = Other
       /\ lifecycleUnchanged
       /\ terminalUnchanged
       /\ UNCHANGED <<now, sessions, files, viewFiles, deletePrompts, writable,
                      manualCaptures, sessionPrompts>>

\* the `.then` of showDiffDialog with the answer to its message
DiffDialogResume(p, selection) ==
    /\ BagIn(p, diffPrompts)
    /\ diffPrompts' = diffPrompts (-) SetToBag({p})
    /\ IF selection = "Save to Session" /\ isSessionActive /\ currentSession # null
       THEN /\ sessions' = addAction("codeChange",
                                     "Changed " \o diffMessage(p.changes, p.filePath),
                                     << >>, stringifyCodeChange(p.changes, p.filePath), "")
            /\ files' = addActionSaved(sessions')
            /\ shown' = Notice(IF currentSession \in DOMAIN sessions
                                THEN {"refresh"} \cup SaveFailed ELSE {})
       ELSE /\ UNCHANGED <<sessions, files>>
            /\ shown' = Notice({})
    /\ lastEvent' = Other
    /\ lifecycleUnchanged
    /\ terminalUnchanged
    /\ UNCHANGED <<now, viewFiles, deletePrompts, writable, fileContents, actionsFile,
                   manualCaptures, sessionPrompts>>

\* what may be dropped on: an action item, a session item, or nothing
DropTargets ==
    {[kind |-> "action", sessionId |-> a.sessionId, actionIndex |-> a.actionIndex] :
        a \in ActionRefs(2)}
    \cup [kind : {"session"}, sessionId : ShownSessionIds, actionIndex : {0}]
    \cup [kind : {"none"}, sessionId : {""}, actionIndex : {0}]
\* the dragged action ids of one drop
DraggedSelections == {<<a>> : a \in ActionRefs(1)}

\* handleDrop(target, dataTransfer)
HandleDrop(target, draggedActionIds) ==
    /\ IF target.kind = "none"
       THEN /\ lastEvent' = Other
            /\ shown' = Notice({})
            /\ UNCHANGED <<sessions, files>>
       ELSE IF target.kind = "session" /\ target.sessionId \notin DOMAIN sessions
       THEN /\ lastEvent' = Other
            /\ shown' = Notice({})
            /\ UNCHANGED <<sessions, files>>
       ELSE LET targetIndex == IF target.kind = "action" THEN target.actionIndex
                               ELSE Len(sessions[target.sessionId].actions)
                dropped == dropEach(sessions, files, "", draggedActionIds,
                                    target.sessionId, targetIndex)
            IN /\ sessions' = dropped.sessions
               /\ files' = dropped.files
               /\ lastEvent' = IF dropped.report = ""
                                  /\ \E a \in Range(draggedActionIds) :
                                        a.sessionId # target.sessionId
                               THEN Mark("handleDrop", "moved between sessions")
                               ELSE Other
               /\ shown' = Notice({"refresh"}
                                   \cup (IF dropped.sessions # sessions THEN SaveFailed ELSE {})
                                   \cup (IF dropped.report # "" THEN {dropped.report} ELSE {}))
    /\ lifecycleUnchanged
    /\ terminalUnchanged
    /\ UNCHANGED <<now, viewFiles>>
    /\ restUnchanged

\* the error reorderActions(sessionId, oldIndex, newIndex) shows and returns
\* on ("" for none)
reorderActionsReport(sessionId, oldIndex, newIndex) ==
    IF sessionId \notin DOMAIN sessions THEN "Session not found"
    ELSE IF \/ oldIndex < 0 \/ oldIndex >= Len(sessions[sessionId].actions)
            \/ newIndex < 0 \/ newIndex >= Len(sessions[sessionId].actions)
    THEN "Invalid action index"
    ELSE ""

\* a reorder that exchanges the two actions
reorderActionsSwap(actions, oldIndex, newIndex) ==
    [actions EXCEPT ![oldIndex + 1] = actions[newIndex + 1],
                    ![newIndex + 1] = actions[oldIndex + 1]]
\* the array after `const [action] = session.actions.splice(oldIndex, 1)`
\* and `session.actions.splice(newIndex, 0, action)`
reorderActions(actions, oldIndex, newIndex) ==
    spliceInsert(spliceRemove(actions, oldIndex), newIndex, actions[oldIndex + 1])

\* reorderActions(sessionId, oldIndex, newIndex)
ReorderActions(sessionId, oldIndex, newIndex) ==
    /\ IF reorderActionsReport(sessionId, oldIndex, newIndex) # ""
       THEN /\ lastEvent' = Other
            /\ UNCHANGED <<sessions, files>>
       ELSE /\ sessions' = [sessions EXCEPT ![sessionId].actions =
                               reorderActions(@, oldIndex, newIndex)]
            /\ files' = saveSession(sessions', sessionId, files)
            /\ lastEvent' = IF oldIndex # newIndex
                            THEN Mark("reorderActions", "reordered") ELSE Other
    /\ lifecycleUnchanged
    /\ terminalUnchanged
    /\ UNCHANGED <<now, viewFiles>>
    /\ restUnchanged
    /\ shown' = Notice(IF reorderActionsReport(sessionId, oldIndex, newIndex) # ""
                        THEN {reorderActionsReport(sessionId, oldIndex, newIndex)}
                        ELSE {"refresh"} \cup SaveFailed)

\* the listener of onDidStartTerminalShellExecution for an event on
\* `terminal` with command line cmdVal, delivered while the listener is
\* registered; rnd is what Math.random() yields if getTerminalId needs it
OnDidStartTerminalShellExecution(terminal, cmdVal, rnd) ==
    /\ terminalStartListener
    /\ IF ~CaptureEnabled
       THEN /\ lastEvent' = Event("onDidStartTerminalShellExecution", "gated")
            /\ UNCHANGED <<pendingCommands, stale, credit>>
       ELSE LET terminalId == getTerminalId(terminal, rnd)
            IN /\ pendingCommands' = MapSet(pendingCommands, terminalId,
                                            [command |-> cmdVal, timestamp |-> toISOString(now)])
               /\ stale' = stale \ {terminalId}
               /\ credit' = IF audit = "credit" /\ credit <= MaxActions
                             THEN credit + 1 ELSE credit
               /\ lastEvent' = Other
    /\ UNCHANGED <<now, audit, sessions, files, viewFiles, currentSession, isSessionActive,
                   fileIsTracking, isTracking, terminalStartListener, terminalEndListener, registered,
                   endHandlers>>
    /\ restUnchanged
    /\ shown' = Notice({})

\* the listener of onDidEndTerminalShellExecution up to
\* `await this.captureTerminalOutput(event.terminal)`
OnDidEndTerminalShellExecution(terminal, exitCode, rnd) ==
    /\ terminalEndListener
    /\ IF ~CaptureEnabled
       THEN /\ lastEvent' = Event("onDidEndTerminalShellExecution", "gated")
            /\ UNCHANGED endHandlers
       ELSE LET terminalId == getTerminalId(terminal, rnd)
                pendingCommand == pendingCommandsGet(terminalId)
            IN IF pendingCommand = <<>>
               THEN /\ lastEvent' = Event("onDidEndTerminalShellExecution", "nopending")
                    /\ UNCHANGED endHandlers
               ELSE /\ HasRoom
                    /\ endHandlers' = endHandlers (+) SetToBag({
                           [terminal |-> terminal,
                            terminalId |-> terminalId,
                            pendingCommand |-> pendingCommand[1],
                            exitCode |-> exitCode,
                            stale |-> terminalId \in stale,
                            session |-> IF audit = "origin" THEN currentSession
                                        ELSE null]})
                    /\ lastEvent' = Other
    /\ UNCHANGED <<now, audit, sessions, files, viewFiles, currentSession, isSessionActive,
                   fileIsTracking, isTracking, terminalStartListener, terminalEndListener, registered,
                   pendingCommands, stale, credit>>
    /\ restUnchanged
    /\ shown' = Notice({})

\* the continuation of a suspended end listener h once captureTerminalOutput
\* has resolved to `output` (a failed capture resolves to "")
EndListenerResume(h, output) ==
    /\ BagIn(h, endHandlers)
    /\ LET success == h.exitCode = 0
           recorded == output # "" /\ currentSession # null /\ currentSession \in DOMAIN sessions
       IN /\ sessions' = IF output # ""
                         THEN addAction("command", h.pendingCommand.command, <<success>>,
                                        h.pendingCommand.timestamp, output)
                         ELSE sessions
          /\ files' = IF output # "" THEN addActionSaved(sessions') ELSE files
          /\ pendingCommands' = MapDelete(pendingCommands, h.terminalId)
          /\ stale' = stale \ {h.terminalId}
          /\ credit' = IF audit = "credit" /\ recorded /\ credit >= 0
                        THEN credit - 1 ELSE credit
          /\ endHandlers' = endHandlers (-) SetToBag({h})
          /\ lastEvent' = Other
    /\ UNCHANGED <<now, audit, viewFiles, currentSession, isSessionActive, fileIsTracking,
                   isTracking, terminalStartListener, terminalEndListener, registered>>
    /\ restUnchanged
    /\ shown' = Notice(IF output # "" /\ currentSession # null
                           /\ currentSession \in DOMAIN sessions
                        THEN {"refresh"} \cup SaveFailed ELSE {})

\* what the input box of manualRecordCommand may return; "" is a dismissed
\* box, " " an entry that trims to nothing
ManualCommands == {"", " ", "git status"}
\* command.trim() is truthy
trims == [c \in ManualCommands |-> c \notin {"", " "}]
\* an append that goes through the pending entry of a terminal first
manualAddActionPending(command) ==
    IF pendingCommands = << >> THEN sessions
    ELSE addAction("command", command, << >>, "", "")
\* `await this.sessionProvider.addAction('command', command)` of
\* manualRecordCommand: this.sessions after it
manualAddAction(command) == addAction("command", command, << >>, "", "")

\* command caveatbot.manualRecordCommand: manualRecordCommand() from the
\* answer of its input box up to `await this.captureCurrentTerminalOutput()`
ManualRecordCommand(command) ==
    /\ TotalActions + BagCardinality(endHandlers) + 2 * manualCaptures + 2 <= MaxManual
    /\ IF command # "" /\ trims[command]
       THEN /\ sessions' = manualAddAction(command)
            /\ files' = addActionSaved(sessions')
            /\ manualCaptures' = manualCaptures + 1
            /\ shown' = Notice(IF currentSession = null
                                THEN {"No active recording session."}
                                ELSE IF currentSession \in DOMAIN sessions
                                THEN {"refresh"} \cup SaveFailed ELSE {})
       ELSE /\ UNCHANGED <<sessions, files, manualCaptures, sessionPrompts>>
            /\ shown' = Notice({})
    /\ lastEvent' = Other
    /\ lifecycleUnchanged
    /\ terminalUnchanged
    /\ UNCHANGED <<now, viewFiles, deletePrompts, writable, fileContents, diffPrompts,
                   actionsFile, sessionPrompts>>

\* the rest of manualRecordCommand once the capture has resolved to
\* `output`: addAction('consequence', output, true) if there is any
ManualRecordResume(output) ==
    /\ manualCaptures > 0
    /\ manualCaptures' = manualCaptures - 1
    /\ IF output # ""
       THEN /\ sessions' = addAction("consequence", output, <<TRUE>>, "", "")
            /\ files' = addActionSaved(sessions')
            /\ shown' = Notice(IF currentSession = null
                                THEN {"No active recording session."}
                                ELSE IF currentSession \in DOMAIN sessions
                                THEN {"refresh"} \cup SaveFailed ELSE {})
       ELSE /\ UNCHANGED <<sessions, files>>
            /\ shown' = Notice({})
    /\ lastEvent' = Other
    /\ lifecycleUnchanged
    /\ terminalUnchanged
    /\ UNCHANGED <<now, viewFiles, deletePrompts, writable, fileContents, diffPrompts,
                   actionsFile, sessionPrompts>>

Next ==
    \/ \E d \in Descriptions \cup {""}, n \in Names : StartSession(d, n)
    \/ \E s \in ShownSessionIds : SetActiveSession(s)
    \/ CloseCurrentSession
    \/ \E s \in ShownSessionIds, c \in {"Delete", "Cancel"} : DeleteSession(s, c)
    \/ ToggleTerminalTracking
    \/ \E d \in Descriptions \cup {""}, n \in Names : StartCapture(d, n)
    \/ StopCapture
    \/ \E t \in Terminals, c \in CommandLines, r \in RandomStrings :
          OnDidStartTerminalShellExecution(t, c, r)
    \/ \E t \in Terminals, e \in ExitCodes, r \in RandomStrings :
          OnDidEndTerminalShellExecution(t, e, r)
    \/ \E h \in BagToSet(endHandlers), o \in Outputs : EndListenerResume(h, o)

Spec == Init /\ [][Next]_vars

\* the terminal monitor switched on and off: every command that starts or
\* stops tracking, the clock, and the commands the start listener hears of
NextMonitor ==
    \/ Tick
    \/ \E d \in Descriptions \cup {""}, n \in Names : StartSession(d, n)
    \/ \E s \in ShownSessionIds : SetActiveSession(s)
    \/ CloseCurrentSession
    \/ \E s \in ShownSessionIds, c \in {"Delete", "Cancel"} : DeleteSession(s, c)
    \/ ToggleTerminalTracking
    \/ \E d \in Descriptions \cup {""}, n \in Names : StartCapture(d, n)
    \/ StopCapture
    \/ \E t \in Terminals, c \in CommandLines, r \in RandomStrings :
          OnDidStartTerminalShellExecution(t, c, r)

SpecMonitor == Init /\ [][NextMonitor]_vars

\* the session lifecycle on its own: the commands of the session provider
\* with the clock advancing and no terminal event
NextLifecycle ==
    \/ Tick
    \/ \E d \in Descriptions \cup {""}, n \in Names : StartSession(d, n)
    \/ \E s \in ShownSessionIds : SetActiveSession(s)
    \/ CloseCurrentSession
    \/ \E s \in ShownSessionIds, c \in Confirmations : DeleteSession(s, c)
    \/ \E t \in NoteTexts : AddNoteAction(t)
    \/ \E s \in ShownSessionIds : ViewSessionJson(s)

SpecLifecycle == InitWith("lifecycle") /\ [][NextLifecycle]_vars

\* the ledger operations on their own: sessions are started, activated and
\* given notes, and their actions deleted, dropped and reordered
NextLedger ==
    \/ \E d \in Descriptions \cup {""}, n \in Names : StartSession(d, n)
    \/ \E s \in ShownSessionIds : SetActiveSession(s)
    \/ \E t \in NoteTexts : AddNoteAction(t)
    \/ \E a \in ActionRefs(1), c \in Confirmations :
          DeleteAction(a.sessionId, a.actionIndex, c)
    \/ \E t \in DropTargets, d \in DraggedSelections : HandleDrop(t, d)
    \/ \E a \in ActionRefs(1), b \in ActionRefs(1) :
          a.sessionId = b.sessionId /\ ReorderActions(a.sessionId, a.actionIndex, b.actionIndex)

SpecLedger == InitWith("ledger") /\ [][NextLedger]_vars

\* the ledgers of three loaded sessions under every operation on a ledger
NextFrame ==
    \/ \E s \in ShownSessionIds : SetActiveSession(s)
    \/ \E t \in NoteTexts : AddNoteAction(t)
    \/ \E a \in ActionRefs(1), c \in Confirmations :
          DeleteAction(a.sessionId, a.actionIndex, c)
    \/ \E t \in DropTargets, d \in DraggedSelections : HandleDrop(t, d)
    \/ \E a \in ActionRefs(1), b \in ActionRefs(1) :
          a.sessionId = b.sessionId /\ ReorderActions(a.sessionId, a.actionIndex, b.actionIndex)

SpecFrame == InitLoaded("off", {TRUE}, {ThreeSessions}) /\ [][NextFrame]_vars

\* the dragged action ids of a drop of two selected action items, in the
\* order handleDrag put them into the payload
DraggedPairs == {<<a, b>> : a \in ActionRefs(0), b \in ActionRefs(0)} \ {<<a, a>> : a \in ActionRefs(0)}

\* the ledger with drops of two actions at once
NextDrag ==
    \/ \E d \in Descriptions \cup {""}, n \in Names : StartSession(d, n)
    \/ \E s \in ShownSessionIds : SetActiveSession(s)
    \/ \E t \in NoteTexts : AddNoteAction(t)
    \/ \E t \in DropTargets, d \in DraggedPairs : HandleDrop(t, d)

SpecDrag == InitWith("ledger") /\ [][NextDrag]_vars

\* the ledger of a loaded session with deleteAction in its two segments:
\* other calls run while a confirmation dialog is open
NextPrompt ==
    \/ \E s \in ShownSessionIds : SetActiveSession(s)
    \/ \E t \in NoteTexts : AddNoteAction(t)
    \/ \E a \in ActionRefs(1) : DeleteActionPrompt(a.sessionId, a.actionIndex)
    \/ \E p \in BagToSet(deletePrompts), c \in Confirmations : DeleteActionResume(p, c)
    \/ \E a \in ActionRefs(1), b \in ActionRefs(1) :
          a.sessionId = b.sessionId /\ ReorderActions(a.sessionId, a.actionIndex, b.actionIndex)

SpecPrompt == InitWith("ledger") /\ [][NextPrompt]_vars

\* the sessions directory under every operation that changes a session, and
\* a new activation that loads the directory
NextPersist ==
    \/ \E d \in Descriptions \cup {""}, n \in Names : StartSession(d, n)
    \/ \E s \in ShownSessionIds : SetActiveSession(s)
    \/ \E t \in NoteTexts : AddNoteAction(t)
    \/ \E q \in ScreenshotPaths, r \in ScreenshotChoices : AddScreenshotAction(q, r)
    \/ \E a \in ActionRefs(1), c \in Confirmations :
          DeleteAction(a.sessionId, a.actionIndex, c)
    \/ \E t \in DropTargets, d \in DraggedSelections : HandleDrop(t, d)
    \/ \E a \in ActionRefs(1), b \in ActionRefs(1) :
          a.sessionId = b.sessionId /\ ReorderActions(a.sessionId, a.actionIndex, b.actionIndex)
    \/ \E s \in ShownSessionIds, c \in Confirmations : DeleteSession(s, c)
    \/ Restart

SpecPersist == InitWith("persist") /\ [][NextPersist]_vars

\* the sessions directory over the life of the extension: sessions are
\* started, given notes and screenshots and deleted, view artifacts are
\* written, a file of the directory is overwritten from outside, and a new
\* activation loads the directory
NextLoad ==
    \/ \E d \in Descriptions \cup {""}, n \in Names : StartSession(d, n)
    \/ \E s \in ShownSessionIds : SetActiveSession(s)
    \/ \E t \in NoteTexts : AddNoteAction(t)
    \/ \E q \in ScreenshotPaths, r \in ScreenshotChoices : AddScreenshotAction(q, r)
    \/ \E s \in ShownSessionIds, c \in Confirmations : DeleteSession(s, c)
    \/ \E s \in ShownSessionIds : ViewSessionJson(s)
    \/ \E s \in DOMAIN files, t \in MalformedTexts : Corrupt(s, t)
    \/ Restart

SpecLoad == InitWith("persist") /\ [][NextLoad]_vars

\* the file watcher of the provider: documents are opened and saved, the
\* message of the diff dialog is answered, sessions are started and closed,
\* and terminal tracking is toggled
NextFiles ==
    \/ \E d \in Descriptions \cup {""}, n \in Names : StartSession(d, n)
    \/ CloseCurrentSession
    \/ ToggleTerminalTracking
    \/ \E q \in Paths, t \in Texts : OnDidOpenTextDocument(q, t)
    \/ \E q \in Paths, t \in Texts : OnDidSaveTextDocument(q, t)
    \/ \E p \in BagToSet(diffPrompts), c \in DiffChoices : DiffDialogResume(p, c)

SpecFiles == InitWith("files") /\ [][NextFiles]_vars

\* the operations that write or remove a file of the sessions directory
NextFault ==
    \/ \E d \in Descriptions \cup {""}, n \in Names : StartSession(d, n)
    \/ \E s \in ShownSessionIds : SetActiveSession(s)
    \/ \E t \in NoteTexts : AddNoteAction(t)
    \/ \E a \in ActionRefs(1), c \in Confirmations :
          DeleteAction(a.sessionId, a.actionIndex, c)
    \/ \E a \in ActionRefs(1), b \in ActionRefs(1) :
          a.sessionId = b.sessionId /\ ReorderActions(a.sessionId, a.actionIndex, b.actionIndex)
    \/ \E s \in ShownSessionIds, c \in Confirmations : DeleteSession(s, c)
    \/ \E s \in ShownSessionIds : ViewSessionJson(s)

\* the directory was loaded from a storage that either takes every write and
\* removal or refuses them all (writeFileSync and unlinkSync throw)
SpecFault == InitStore("persist", BOOLEAN) /\ [][NextFault]_vars

\* the session lifecycle with deleteSession in its two segments: other
\* commands run while a confirmation dialog is open, and the clock advances
NextSessions ==
    \/ Tick
    \/ \E d \in Descriptions \cup {""}, n \in Names : StartSession(d, n)
    \/ \E s \in ShownSessionIds : SetActiveSession(s)
    \/ CloseCurrentSession
    \/ \E s \in ShownSessionIds : DeleteSessionPrompt(s)
    \/ \E s \in BagToSet(sessionPrompts), c \in Confirmations : DeleteSessionResume(s, c)

SpecSessions == Init /\ [][NextSessions]_vars

\* commands recorded by hand next to the start listener: sessions are started
\* and closed, terminal tracking is toggled, commands start in terminals
NextManual ==
    \/ \E d \in Descriptions \cup {""}, n \in Names : StartSession(d, n)
    \/ CloseCurrentSession
    \/ ToggleTerminalTracking
    \/ \E t \in Terminals, c \in CommandLines, r \in RandomStrings :
          OnDidStartTerminalShellExecution(t, c, r)
    \/ \E c \in ManualCommands : ManualRecordCommand(c)
    \/ \E o \in Outputs : ManualRecordResume(o)

SpecManual == Init /\ [][NextManual]_vars

\* the same program, with the mark `stale` kept on every pending entry that
\* was pending when stopTracking() ran
SpecStale == InitWith("stale") /\ [][Next]_vars

\* the same program, with the count of stored start events minus recorded
\* command actions kept (it stops counting up above MaxActions, which is more
\* than the actions that can be recorded)
SpecCredit == InitWith("credit") /\ [][Next]_vars

\* the same program, with the session that was current when the end event
\* arrived kept on every suspended end listener
SpecOrigin == InitWith("origin") /\ [][Next]_vars

\* ------------------------------------------------------------------ claims
\* the action a paired command is recorded as
CommandAction(h, output) ==
    [type |-> "command", command |-> h.pendingCommand.command,
     code_change |-> h.pendingCommand.timestamp, output |-> output,
     success |-> (h.exitCode = 0), timestamp |-> toISOString(now)]
SessionLive == currentSession # null /\ currentSession \in DOMAIN sessions

\* C1: with tracking on and a session active, a start event (terminal t,
\* text c) followed by the end event of t (exit code e, captured output o)
\* appends exactly one action to the active session's ledger - type command,
\* content c, success = (e = 0), output = o - and changes no other ledger:
\* the start leaves c where every end event of t looks it up, and the end
\* listener that found it appends that action when the capture resolves.
C1_StartThenEndRecordsOneCommand ==
    [][ /\ \A t \in Terminals, c \in CommandLines, r \in RandomStrings :
             (OnDidStartTerminalShellExecution(t, c, r) /\ CaptureEnabled)
             => \A r2 \in RandomStrings :
                   /\ getTerminalId(t, r2) \in DOMAIN pendingCommands'
                   /\ pendingCommands'[getTerminalId(t, r2)].command = c
        /\ \A h \in BagToSet(endHandlers), o \in Outputs :
             (EndListenerResume(h, o) /\ SessionLive)
             => sessions' = [sessions EXCEPT ![currentSession].actions =
                                Append(@, CommandAction(h, o))]
      ]_vars

\* C2: an end listener that found a pending entry emits exactly one command
\* action whatever the capture yields; with an empty or failed capture the
\* action's output is the empty string.
C2_EmptyOutputStillRecorded ==
    [][ \A h \in BagToSet(endHandlers), o \in Outputs :
          (EndListenerResume(h, o) /\ SessionLive)
          => /\ Len(sessions'[currentSession].actions)
                  = Len(sessions[currentSession].actions) + 1
             /\ sessions'[currentSession].actions[Len(sessions'[currentSession].actions)].type
                  = "command"
             /\ sessions'[currentSession].actions[Len(sessions'[currentSession].actions)].output
                  = o
      ]_vars

\* C3: an end event on a terminal without a pending entry changes no ledger
\* and not the pending map, and leaves no listener behind that could append
\* an action later.
C3_EndWithoutPendingIgnored ==
    [][ \/ ~terminalEndListener
        \/ /\ sessions' = sessions
           /\ pendingCommands' = pendingCommands
           /\ endHandlers' = endHandlers
        \/ \A t \in Terminals, e \in ExitCodes, r \in RandomStrings :
              getTerminalId(t, r) \notin DOMAIN pendingCommands
              => ~OnDidEndTerminalShellExecution(t, e, r)
      ]_vars
\* an end event was ignored for want of a pending entry while another
\* terminal had one
C3_Witness ==
    /\ lastEvent = Event("onDidEndTerminalShellExecution", "nopending")
    /\ DOMAIN pendingCommands # {}

\* C4: last start wins - after a second start on a terminal only its text
\* is retained for that terminal, and the next end event of the terminal
\* emits exactly one command action, whose content is the retained text.
C4_LastStartWins ==
    [][ /\ \A t \in Terminals, c \in CommandLines, r \in RandomStrings :
             (OnDidStartTerminalShellExecution(t, c, r) /\ CaptureEnabled)
             => \A r2 \in RandomStrings :
                   getTerminalId(t, r2) \in DOMAIN pendingCommands'
                   => pendingCommands'[getTerminalId(t, r2)].command = c
        /\ \A h \in BagToSet(endHandlers), o \in Outputs :
             (EndListenerResume(h, o) /\ SessionLive)
             => /\ TotalActions' = TotalActions + 1
                /\ sessions'[currentSession].actions[Len(sessions'[currentSession].actions)].command
                     = h.pendingCommand.command
      ]_vars

\* C5: a command that was pending when terminal tracking was disabled is
\* never recorded, also when tracking is enabled again before its end event.
C5_StopDiscardsPending ==
    [][ \A h \in BagToSet(endHandlers), o \in Outputs :
          (EndListenerResume(h, o) /\ sessions' # sessions)
          => ~h.stale
      ]_vars

\* C6: pending commands are kept per terminal - with starts outstanding on
\* two terminals, the end of terminal t1's command emits the action of t1's
\* command and leaves the pending entry of every other terminal id as it was.
C6_TerminalsIndependent ==
    [][ \A h \in BagToSet(endHandlers), o \in Outputs :
          (/\ EndListenerResume(h, o)
           /\ SessionLive
           /\ DOMAIN pendingCommands \ {h.terminalId} # {})
          => /\ \E k \in 1..Len(sessions'[currentSession].actions) :
                   sessions'[currentSession].actions[k] = CommandAction(h, o)
             /\ \A id \in DOMAIN pendingCommands \ {h.terminalId} :
                   /\ id \in DOMAIN pendingCommands'
                   /\ pendingCommands'[id] = pendingCommands[id]
      ]_vars

\* C7: the terminal id is stable - whatever the end listener computes for a
\* terminal equals what the start listener computed for it, so that the end
\* event finds the entry of its start, random fallback included.
C7_TerminalIdStable ==
    [][ \A t \in Terminals, c \in CommandLines, r \in RandomStrings :
          (OnDidStartTerminalShellExecution(t, c, r) /\ CaptureEnabled)
          => \A r2 \in RandomStrings : getTerminalId(t, r2) = getTerminalId(t, r)
      ]_vars

\* C8: a start event received while tracking is off or no session is active
\* creates no pending entry, and an end event received then emits no action,
\* neither at once nor through a listener left waiting.
C8_CaptureGated ==
    [][ (isTracking /\ currentSession # null)
        \/ /\ \/ pendingCommands' = pendingCommands
              \/ \A t \in Terminals, c \in CommandLines, r \in RandomStrings :
                    ~OnDidStartTerminalShellExecution(t, c, r)
           /\ \/ (sessions' = sessions /\ endHandlers' = endHandlers)
              \/ \A t \in Terminals, e \in ExitCodes, r \in RandomStrings :
                    ~OnDidEndTerminalShellExecution(t, e, r)
      ]_vars
\* an end event arrived with its listener registered and an entry pending,
\* but no session active
C8_Witness ==
    /\ lastEvent = Event("onDidEndTerminalShellExecution", "gated")
    /\ terminalEndListener
    /\ currentSession = null
    /\ DOMAIN pendingCommands # {}

\* C9: a twice delivered end event records its command at most once; hence
\* there are never more recorded command actions than stored start events.
C9_EndHandledIdempotently == credit >= 0

\* C10: handlers run to completion - while an end listener is between its
\* look-up and its append, no other handler changes the pending map, the
\* active session or a ledger.
C10_HandlersRunToCompletion ==
    [][ endHandlers # EmptyBag
        => \/ UNCHANGED <<pendingCommands, currentSession, sessions>>
           \/ /\ BagCardinality(endHandlers) = 1
              /\ \E h \in BagToSet(endHandlers), o \in Outputs : EndListenerResume(h, o)
      ]_vars

\* C11: at most one session is active; when start() completes the new
\* session is the active one, and the session that was active before is
\* still in the store with its ledger as it was.
C11_StartKeepsPreviousSession ==
    [][ \A d \in Descriptions, n \in Names :
          StartSession(d, n)
          => /\ currentSession' = NewSessionId(now)
             /\ currentSession' \in DOMAIN sessions'
             /\ isSessionActive'
             /\ SessionLive
                => /\ currentSession \in DOMAIN sessions'
                   /\ sessions'[currentSession].actions = sessions[currentSession].actions
      ]_vars

\* C12: setActive(id) makes id the active session if id is in the store;
\* otherwise it changes neither the active session, nor a tracking flag, nor
\* a ledger or a persisted record.
C12_SetActiveOnlyExisting ==
    [][ \A s \in ShownSessionIds :
          SetActiveSession(s)
          => IF s \in DOMAIN sessions
             THEN currentSession' = s /\ isSessionActive' /\ sessions' = sessions
             ELSE UNCHANGED <<currentSession, isSessionActive, isTracking, fileIsTracking,
                              terminalStartListener, terminalEndListener, registered, sessions, files>>
      ]_vars
\* setActive was ignored for an id not in the store while a session was active
C12_Witness ==
    /\ lastEvent = Event("setActiveSession", "ignored")
    /\ currentSession # null
    /\ isTracking

\* C13: after start() or a successful setActive() terminal tracking and file
\* tracking are both on; after close(), also the close forced by deleting
\* the active session, both are off.
C13_TrackersFollowLifecycle ==
    [][ /\ (\E d \in Descriptions, n \in Names : StartSession(d, n))
             => (isTracking' /\ fileIsTracking')
        /\ (\E s \in DOMAIN sessions : SetActiveSession(s))
             => (isTracking' /\ fileIsTracking')
        /\ (currentSession # null /\ CloseCurrentSession)
             => (~isTracking' /\ ~fileIsTracking')
        /\ (currentSession \in DOMAIN sessions /\ DeleteSession(currentSession, "Delete"))
             => (~isTracking' /\ ~fileIsTracking')
      ]_vars

\* C14: a confirmed deleteSession(id) leaves id out of the store, its record
\* and its view artifact out of the sessions directory, and no session
\* active if id was the active one; if another session was active it stays.
C14_DeleteSessionRemovesAll ==
    [][ \A s \in DOMAIN sessions :
          DeleteSession(s, "Delete")
          => /\ s \notin DOMAIN sessions'
             /\ s \notin DOMAIN files'
             /\ s \notin viewFiles'
             /\ IF currentSession = s
                THEN currentSession' = null /\ ~isSessionActive'
                ELSE UNCHANGED <<currentSession, isSessionActive>>
      ]_vars
\* the active session was deleted while another session is still stored
C14_Witness ==
    /\ lastEvent = Event("deleteSession", "deleted the active session")
    /\ currentSession = null
    /\ DOMAIN sessions # {}

\* C15: a session created by start() gets an id that no session in the store
\* has, and every session that was in the store is still there unchanged,
\* also when two creations complete at the same clock value.
C15_SessionIdsUnique ==
    [][ \A d \in Descriptions, n \in Names :
          StartSession(d, n)
          => /\ currentSession' \notin DOMAIN sessions
             /\ \A id \in DOMAIN sessions :
                   id \in DOMAIN sessions' /\ sessions'[id] = sessions[id]
      ]_vars

\* C16: an append puts its action behind all actions the session has, so N
\* appends in a row leave the N actions in the order of their appends.
C16_AppendsKeepOrder ==
    [][ \A t \in NoteTexts \ {""} :
          (SessionLive /\ AddNoteAction(t))
          => LET old == sessions[currentSession].actions
                 new == sessions'[currentSession].actions
             IN /\ Len(new) = Len(old) + 1
                /\ SubSeq(new, 1, Len(old)) = old
                /\ new[Len(new)].type = "note"
                /\ new[Len(new)].command = t
      ]_vars
\* two different notes were appended to a new session, one after the other
C16_Witness ==
    \E id \in DOMAIN sessions :
       /\ id # NewSessionId(0)
       /\ Len(sessions[id].actions) = 2
       /\ sessions[id].actions[1].command = "Fixed it"
       /\ sessions[id].actions[2].command = "Found a bug"

ValidMove(S1, i, S2, j) ==
    /\ S1 \in DOMAIN sessions
    /\ S2 \in DOMAIN sessions
    /\ i < Len(sessions[S1].actions)
    /\ j <= Len(sessions[S2].actions)

\* C18: a delete, move or reorder that names a session not in the store or an
\* index out of range reports an error and changes neither a ledger, nor the
\* active session, nor a persisted record: every such call has an error to
\* report, and a step that changes one of these is not the step of such a call.
C18_InvalidMutationChangesNothing ==
    /\ [](/\ \A a \in ActionRefs(1) :
               (\/ a.sessionId \notin DOMAIN sessions
                \/ a.actionIndex >= Len(sessions[a.sessionId].actions))
               => deleteActionReport(a.sessionId, a.actionIndex) # ""
          /\ \A a \in ActionRefs(1), b \in ActionRefs(2) :
               ~ValidMove(a.sessionId, a.actionIndex, b.sessionId, b.actionIndex)
               => moveAction(sessions, files, a.sessionId, a.actionIndex,
                             b.sessionId, b.actionIndex).report # ""
          /\ \A a \in ActionRefs(1), b \in ActionRefs(1) :
               (/\ a.sessionId = b.sessionId
                /\ \/ a.sessionId \notin DOMAIN sessions
                   \/ a.actionIndex >= Len(sessions[a.sessionId].actions)
                   \/ b.actionIndex >= Len(sessions[a.sessionId].actions))
               => reorderActionsReport(a.sessionId, a.actionIndex, b.actionIndex) # "")
    /\ [][ \/ UNCHANGED <<sessions, currentSession, isSessionActive, files>>
           \/ /\ \A a \in ActionRefs(1), c \in Confirmations :
                    (\/ a.sessionId \notin DOMAIN sessions
                     \/ a.actionIndex >= Len(sessions[a.sessionId].actions))
                    => ~DeleteAction(a.sessionId, a.actionIndex, c)
              /\ \A a \in ActionRefs(1), b \in ActionRefs(2) :
                    ~ValidMove(a.sessionId, a.actionIndex, b.sessionId, b.actionIndex)
                    => ~HandleDrop([kind |-> "action", sessionId |-> b.sessionId,
                                    actionIndex |-> b.actionIndex], <<a>>)
              /\ \A a \in ActionRefs(1), b \in ActionRefs(1) :
                    (/\ a.sessionId = b.sessionId
                     /\ \/ a.sessionId \notin DOMAIN sessions
                        \/ a.actionIndex >= Len(sessions[a.sessionId].actions)
                        \/ b.actionIndex >= Len(sessions[a.sessionId].actions))
                    => ~ReorderActions(a.sessionId, a.actionIndex, b.actionIndex)
         ]_vars
\* a delete with an index beyond the end of a three-action ledger was refused
C18_Witness ==
    /\ lastEvent = Event("deleteAction", "Action not found")
    /\ \E s \in DOMAIN sessions : Len(sessions[s].actions) = 3

\* C19: move(S1, i, S2, j) between two different sessions, i an index of S1
\* and 0 <= j <= |S2.actions|, makes S1 one shorter and S2 one longer, puts
\* the moved action at S2.actions[j], keeps the order of all other actions of
\* both, and keeps the number of actions over all sessions.
C19_MoveBetweenSessions ==
    [][ \A S1 \in DOMAIN sessions, S2 \in DOMAIN sessions :
          S1 # S2 =>
          \A i \in 0..(Len(sessions[S1].actions) - 1), j \in 0..Len(sessions[S2].actions) :
            (\/ HandleDrop([kind |-> "action", sessionId |-> S2, actionIndex |-> j],
                           <<[sessionId |-> S1, actionIndex |-> i]>>)
             \/ /\ j = Len(sessions[S2].actions)
                /\ HandleDrop([kind |-> "session", sessionId |-> S2, actionIndex |-> 0],
                              <<[sessionId |-> S1, actionIndex |-> i]>>))
            => /\ Len(sessions'[S1].actions) = Len(sessions[S1].actions) - 1
               /\ Len(sessions'[S2].actions) = Len(sessions[S2].actions) + 1
               /\ sessions'[S2].actions[j + 1] = sessions[S1].actions[i + 1]
               /\ \A k \in 1..Len(sessions'[S1].actions) :
                     sessions'[S1].actions[k]
                        = sessions[S1].actions[IF k <= i THEN k ELSE k + 1]
               /\ \A k \in 1..Len(sessions[S2].actions) :
                     sessions[S2].actions[k]
                        = sessions'[S2].actions[IF k <= j THEN k ELSE k + 1]
               /\ TotalActions' = TotalActions
               /\ \A o \in DOMAIN sessions \ {S1, S2} : sessions'[o] = sessions[o]
      ]_vars
\* an action was moved to another session, which now holds two or more
C19_Witness ==
    /\ lastEvent = Event("handleDrop", "moved between sessions")
    /\ \E s \in DOMAIN sessions : Len(sessions[s].actions) >= 2
    /\ Cardinality(DOMAIN sessions) >= 2

\* C20: a move within one session to a destination index behind the source
\* index puts the moved action immediately before the action that was at the
\* destination index before the move.
C20_MoveWithinSessionLandsBefore ==
    [][ \A t \in DropTargets, a \in ActionRefs(1) :
          (/\ t.kind = "action"
           /\ a.sessionId = t.sessionId
           /\ t.sessionId \in DOMAIN sessions
           /\ t.actionIndex > a.actionIndex
           /\ t.actionIndex < Len(sessions[t.sessionId].actions)
           /\ HandleDrop(t, <<a>>))
          => LET old == sessions[t.sessionId].actions
                 new == sessions'[t.sessionId].actions
                 i == a.actionIndex
                 j == t.actionIndex
             IN /\ new[j] = old[i + 1]
                /\ new[j + 1] = old[j + 1]
      ]_vars

\* C21: reorder(S, oldIndex, newIndex) with both indices in 0..|S.actions|-1
\* keeps the length of the ledger and how often each action occurs in it,
\* puts the action that was at oldIndex at newIndex, and keeps the order of
\* all other actions.
C21_ReorderKeepsLedger ==
    [][ \A s \in DOMAIN sessions :
          \A o \in 0..(Len(sessions[s].actions) - 1), n \in 0..(Len(sessions[s].actions) - 1) :
            ReorderActions(s, o, n)
            => LET old == sessions[s].actions
                   new == sessions'[s].actions
               IN /\ Len(new) = Len(old)
                  /\ \A x \in Range(old) \cup Range(new) :
                        Cardinality({k \in DOMAIN old : old[k] = x})
                           = Cardinality({k \in DOMAIN new : new[k] = x})
                  /\ new[n + 1] = old[o + 1]
                  /\ \A k \in 1..(Len(old) - 1) :
                        new[IF k <= n THEN k ELSE k + 1] = old[IF k <= o THEN k ELSE k + 1]
      ]_vars
\* an action of a three-action ledger was put at another index
C21_Witness ==
    /\ lastEvent = Event("reorderActions", "reordered")
    /\ \E s \in DOMAIN sessions :
          /\ Len(sessions[s].actions) = 3
          /\ sessions[s].actions[1] # sessions[s].actions[3]

\* the actions of a ledger without those at the (0-based) indices idxs
Kept(actions, idxs) ==
    LET F[k \in 0..Len(actions)] ==
          IF k = 0 THEN << >>
          ELSE IF (k - 1) \in idxs THEN F[k - 1] ELSE Append(F[k - 1], actions[k])
    IN F[Len(actions)]

\* C22: when two actions are dragged and dropped together on another
\* session, exactly the two actions that stood at the dragged indices before
\* the drop are moved to the target position, in the order dragged, and every
\* other action stays in its session in its order.
C22_DropMovesTheDragged ==
    [][ \A t \in DropTargets, d \in DraggedPairs :
          LET a == d[1]
              b == d[2]
              S2 == t.sessionId
              j == IF t.kind = "action" THEN t.actionIndex ELSE Len(sessions[S2].actions)
          IN (/\ t.kind # "none"
              /\ S2 \in DOMAIN sessions
              /\ a.sessionId \in DOMAIN sessions \ {S2}
              /\ b.sessionId \in DOMAIN sessions \ {S2}
              /\ j <= Len(sessions[S2].actions)
              /\ HandleDrop(t, d))
             => /\ sessions'[S2].actions
                     = SubSeq(sessions[S2].actions, 1, j)
                       \o << sessions[a.sessionId].actions[a.actionIndex + 1],
                             sessions[b.sessionId].actions[b.actionIndex + 1] >>
                       \o SubSeq(sessions[S2].actions, j + 1, Len(sessions[S2].actions))
                /\ \A s \in DOMAIN sessions \ {S2} :
                      sessions'[s].actions
                         = Kept(sessions[s].actions,
                                {r.actionIndex : r \in {x \in {a, b} : x.sessionId = s}})
      ]_vars

\* C23: the action a confirmed delete removes is the one its dialog named:
\* if the ledger changed while the dialog was open, the index taken before
\* the dialog is not used to remove another action.
C23_DeleteRemovesTheConfirmed ==
    [][ \A p \in BagToSet(deletePrompts) :
          DeleteActionResume(p, "Delete")
          => \/ sessions' = sessions
             \/ /\ p.actionIndex < Len(sessions[p.sessionId].actions)
                /\ sessions[p.sessionId].actions[p.actionIndex + 1] = p.action
      ]_vars

\* C24: a step that changes the sessions of the store (create, append,
\* delete, move, reorder, screenshot add; a new activation only reads) leaves
\* every session it changed or created written to its file as it is in
\* memory, leaves no file for a session it removed, and fires the view
\* refresh, whenever no storage write failed.
C24_DiskFollowsMemory ==
    [][ \/ sessions' = sessions
        \/ Restart
        \/ /\ "refresh" \in shown'
           /\ \A id \in DOMAIN sessions' :
                 (id \notin DOMAIN sessions \/ sessions'[id] # sessions[id])
                 => /\ id \in DOMAIN files'
                    /\ files'[id] = JSONstringify(sessions'[id])
           /\ \A id \in DOMAIN sessions \ DOMAIN sessions' : id \notin DOMAIN files' ]_vars
\* a session with a note and a screenshot, refreshed and on disk as in memory
C24_Witness ==
    /\ "refresh" \in shown
    /\ \E id \in DOMAIN sessions \cap DOMAIN files :
          /\ Len(sessions[id].actions) = 2
          /\ \E k \in 1..2 : sessions[id].actions[k].type = "screenshot"
          /\ files[id] = JSONstringify(sessions[id])
\* C25: on a storage that refuses, a note, a deletion of an action, a reorder
\* and a new session are kept in memory although their write failed, and a
\* deleted session stays removed although its file could not be removed; the
\* failure is shown each time, and the files stay as they were.
C25_FailureKeepsMemory ==
    [][ \/ writable
        \/ /\ files' = files
           /\ \A id \in DOMAIN sessions' :
                 (id \notin DOMAIN sessions \/ sessions'[id] # sessions[id])
                 => "Failed to save session" \in shown'
           /\ \A t \in NoteTexts \ {""} :
                 (SessionLive /\ AddNoteAction(t))
                 => /\ Len(sessions'[currentSession].actions) =
                          Len(sessions[currentSession].actions) + 1
                    /\ sessions'[currentSession].actions
                          [Len(sessions'[currentSession].actions)].command = t
           /\ \A a \in ActionRefs(0) :
                 (deleteActionReport(a.sessionId, a.actionIndex) = ""
                    /\ DeleteAction(a.sessionId, a.actionIndex, "Delete"))
                 => sessions'[a.sessionId].actions =
                       spliceRemove(sessions[a.sessionId].actions, a.actionIndex)
           /\ \A a \in ActionRefs(0), b \in ActionRefs(0) :
                 (a.sessionId = b.sessionId /\ a.actionIndex # b.actionIndex
                    /\ reorderActionsReport(a.sessionId, a.actionIndex, b.actionIndex) = ""
                    /\ ReorderActions(a.sessionId, a.actionIndex, b.actionIndex))
                 => sessions'[a.sessionId].actions[b.actionIndex + 1] =
                       sessions[a.sessionId].actions[a.actionIndex + 1]
           /\ \A d \in Descriptions, n \in Names :
                 StartSession(d, n)
                 => /\ currentSession' \in DOMAIN sessions'
                    /\ sessions'[currentSession'].description = d
           /\ \A id \in DOMAIN sessions :
                 DeleteSession(id, "Delete")
                 => /\ id \notin DOMAIN sessions'
                    /\ id \in DOMAIN files
                         => "Failed to delete session file" \in shown' ]_vars
\* a failed save was just shown and the file of a session is behind it
C25_Witness ==
    /\ ~writable
    /\ "Failed to save session" \in shown
    /\ \E id \in DOMAIN sessions \cap DOMAIN files :
          /\ files[id] # JSONstringify(sessions[id])
          /\ Len(sessions[id].actions) >= 1
WellFormed(text) == text.syntax = "json" /\ \E m \in text.members : m[1] = "id"
\* C27: a new activation loads exactly the well-formed records of the
\* sessions directory: every one of them is in the store, and a malformed
\* record contributes no entry.
C27_LoadSkipsMalformed ==
    [][ \/ ~Restart
        \/ /\ \A n \in DOMAIN files :
                 WellFormed(files[n])
                 => n \in DOMAIN sessions' /\ sessions'[n] = JSONparse(files[n])
           /\ \A k \in DOMAIN sessions' :
                 \E n \in DOMAIN files :
                    WellFormed(files[n]) /\ JSONparse(files[n]).id = k ]_vars
\* C28: a save of a document that has no cached content, or whose content is
\* the cached content, appends no action to a ledger or to the action
\* manager, opens no diff dialog and shows nothing.
C28_SaveWithoutChange ==
    [][ \/ /\ UNCHANGED <<sessions, files, diffPrompts, actionsFile>>
           /\ shown' = {}
        \/ \A q \in Paths, t \in Texts :
              (q \notin DOMAIN fileContents \/ fileContents[q] = t)
              => ~OnDidSaveTextDocument(q, t) ]_vars
\* file and terminal tracking are on in an active session, the document is
\* cached and an earlier change of it was recorded, and the last handler
\* showed nothing
C28_Witness ==
    /\ fileIsTracking /\ isTracking /\ isSessionActive
    /\ DOMAIN fileContents = Paths
    /\ actionsFile # << >>
    /\ actionsFile[Len(actionsFile)].file \in Paths
    /\ diffPrompts # EmptyBag
    /\ shown = {}

C31_CacheFollowsSaves ==
    [][ \A q \in Paths, t \in Texts :
           OnDidSaveTextDocument(q, t)
           => /\ q \in DOMAIN fileContents'
              /\ fileContents'[q] = t
              /\ \A p \in BagToSet(diffPrompts') :
                    CopiesIn(p, diffPrompts') > CopiesIn(p, diffPrompts)
                    => /\ q \in DOMAIN fileContents
                       /\ p.changes = changesOf(diffLines(fileContents[q], t)) ]_vars
\* a session is active again with tracking on, and the one recorded diff of
\* the document now cached as "b" is the removal of "a" alone
C31_Witness ==
    /\ fileIsTracking /\ isTracking /\ isSessionActive
    /\ \E q \in DOMAIN fileContents : fileContents[q] = <<"b">>
    /\ Len(actionsFile) = 1
    /\ actionsFile[1].changes = <<[type |-> "removal", value |-> <<"a">>]>>
    /\ \E id \in DOMAIN sessions : id # currentSession
\* C32: manualRecordCommand with a command text appends one command action
\* with that text to the active session and leaves the pending-command map
\* as it is, with terminal tracking on or off.
C32_ManualRecordBypasses ==
    [][ \A c \in ManualCommands :
           (trims[c] /\ SessionLive /\ ManualRecordCommand(c))
           => /\ pendingCommands' = pendingCommands
              /\ LET before == sessions[currentSession].actions
                     after == sessions'[currentSession].actions
                 IN /\ Len(after) = Len(before) + 1
                    /\ SubSeq(after, 1, Len(before)) = before
                    /\ after[Len(after)].type = "command"
                    /\ after[Len(after)].command = c ]_vars
\* with tracking off and a command pending in a terminal, the ledger of the
\* active session ends with a command recorded by hand whose capture is open
C32_Witness ==
    /\ ~isTracking
    /\ pendingCommands # << >>
    /\ manualCaptures > 0
    /\ SessionLive
    /\ LET actions == sessions[currentSession].actions
       IN /\ actions # << >>
          /\ actions[Len(actions)].type = "command"
          /\ actions[Len(actions)].command = "git status"
\* C33: the command an end listener records once its output capture has
\* resolved goes to the session that was current when the end event arrived:
\* the ledger of every other session stays as it was.
C33_RecordedWhereReceived ==
    [][ \A h \in BagToSet(endHandlers), o \in Outputs :
           EndListenerResume(h, o)
           => \A id \in DOMAIN sessions' \ {h.session} :
                 /\ id \in DOMAIN sessions
                 /\ sessions'[id].actions = sessions[id].actions ]_vars
\* C34: when an end listener finishes after a newer command has started in
\* its terminal, the pending entry of the newer command is still there
\* afterwards.
C34_StartSurvivesOlderEnd ==
    [][ \A h \in BagToSet(endHandlers), o \in Outputs :
           (/\ h.terminalId \in DOMAIN pendingCommands
            /\ pendingCommands[h.terminalId] # h.pendingCommand
            /\ EndListenerResume(h, o))
           => /\ h.terminalId \in DOMAIN pendingCommands'
              /\ pendingCommands'[h.terminalId] = pendingCommands[h.terminalId] ]_vars

\* C35: after every start, activation, close and deletion, cancelled prompts
\* included, the active flag is set exactly when there is a current session.
C35_IndicatorsAgree == isSessionActive <=> (currentSession # null)
\* the active session was deleted while a second dialog for it stayed open
C35_Witness ==
    /\ ~isSessionActive
    /\ currentSession = null
    /\ \E s \in BagToSet(sessionPrompts) : s \notin DOMAIN sessions

\* C36: whenever there is a current session it is one of the stored
\* sessions, however starts, activations, closes and deletions interleave
\* with open confirmation dialogs.
C36_ActiveSessionExists == currentSession # null => currentSession \in DOMAIN sessions
\* a session is current while a dialog is still open for a session deleted
\* through another dialog
C36_Witness ==
    /\ currentSession # null
    /\ currentSession \in DOMAIN sessions
    /\ \E s \in BagToSet(sessionPrompts) : s \notin DOMAIN sessions

\* C37: a new activation over a directory whose session files are all as
\* saveSession wrote them restores exactly those sessions: the ids of the
\* store are the ids of the session files, and a view file of the directory
\* adds no entry.
C37_LoadRestoresStored ==
    [][ \/ ~Restart
        \/ (\E n \in DOMAIN files : ~WellFormed(files[n]))
        \/ DOMAIN sessions' = DOMAIN files ]_vars

\* C38: at every moment the host holds at most one start listener and at
\* most one end listener of the monitor, and holds one exactly when the
\* monitor keeps it in its field, so a host event runs each handler at most
\* once.
C38_OneListenerEach ==
    /\ registered.start = (IF terminalStartListener THEN 1 ELSE 0)
    /\ registered.end = (IF terminalEndListener THEN 1 ELSE 0)
\* tracking was started again over a listener already registered, with a
\* command pending
C38_Witness ==
    /\ registered = [start |-> 1, end |-> 1]
    /\ isTracking
    /\ currentSession = null
    /\ pendingCommands # << >>

Frame(named) ==
    /\ currentSession' = currentSession
    /\ isSessionActive' = isSessionActive
    /\ DOMAIN sessions' = DOMAIN sessions
    /\ \A o \in DOMAIN sessions \ named : sessions'[o] = sessions[o]
\* C40: an append changes no session but the current one, a delete and a
\* reorder no session but the one they name, a move no session but its
\* source and its target; and none of them changes which session is active.
C40_LedgerOperationsFrame ==
    [][ /\ \A t \in NoteTexts : Frame({currentSession}) \/ ~AddNoteAction(t)
        /\ \A a \in ActionRefs(1), c \in Confirmations :
              Frame({a.sessionId}) \/ ~DeleteAction(a.sessionId, a.actionIndex, c)
        /\ \A a \in ActionRefs(1), b \in ActionRefs(1) :
              \/ a.sessionId # b.sessionId
              \/ Frame({a.sessionId})
              \/ ~ReorderActions(a.sessionId, a.actionIndex, b.actionIndex)
        /\ \A t \in DropTargets, d \in DraggedSelections :
              Frame({d[1].sessionId, t.sessionId}) \/ ~HandleDrop(t, d) ]_vars
\* the loaded note was moved to another of the three sessions and a note
\* appended to the third, which is active
C40_Witness ==
    /\ Cardinality(DOMAIN sessions) = 3
    /\ currentSession = "session-b"
    /\ sessions[NewSessionId(0)].actions = << >>
    /\ Len(sessions["session-a"].actions) = 1
    /\ sessions["session-a"].actions[1].command = "todo"
    /\ Len(sessions["session-b"].actions) = 1
====
